---- MODULE Spec2Model ----
(***************************************************************************)
(* Model of extract_frames.py ("original") and extract_frames_upgraded.py  *)
(* ("upgraded"): one interactive run of main(), i.e. listing and selecting *)
(* a video, resolving the frame count, building the frame -> timecode      *)
(* dictionary and extracting the last four frames.                         *)
(*                                                                         *)
(* Text is modelled as sequences of one-character strings.  Python floats  *)
(* are IEEE-754 doubles: a double is the record [m, e] standing for        *)
(* m * 2^e, where m is a 53-bit mantissa written as a sequence of bits,    *)
(* most significant first (the empty sequence is 0.0).  Mantissas do not   *)
(* fit the integers of the model checker, hence the bit sequences.         *)
(***************************************************************************)
EXTENDS Integers, Sequences, FiniteSets, TLC

\* ------------------------------------------------------------------------
\* Bounds of the model
\* ------------------------------------------------------------------------

\* largest frame count the count scan reports
MaxFrames == 5

\* largest number of frame entries in the metadata report
MaxReport == 3

\* ------------------------------------------------------------------------
\* Text helpers: str(int), int(str), str.strip()
\* ------------------------------------------------------------------------

None == "None"

DigitChars == <<"0", "1", "2", "3", "4", "5", "6", "7", "8", "9">>

IsDigit(c) == \E d \in 1..10 : DigitChars[d] = c

DigitVal(c) == (CHOOSE d \in 1..10 : DigitChars[d] = c) - 1

Whitespace == {" ", "\n", "\t", "\r"}

\* decimal text of a natural number, as str(n) / format(n, "d") writes it
RECURSIVE DecimalString(_)
DecimalString(n) ==
    IF n < 10 THEN <<DigitChars[n + 1]>>
    ELSE Append(DecimalString(n \div 10), DigitChars[(n % 10) + 1])

\* format(n, "0w"): zero-padded to a minimum width w, never truncated
RECURSIVE ZeroPad(_, _)
ZeroPad(s, w) == IF Len(s) >= w THEN s ELSE ZeroPad(<<"0">> \o s, w)

\* str.strip(): leading and trailing whitespace removed
RECURSIVE strip(_)
strip(s) ==
    IF s = <<>> THEN s
    ELSE IF Head(s) \in Whitespace THEN strip(Tail(s))
    ELSE IF s[Len(s)] \in Whitespace THEN strip(SubSeq(s, 1, Len(s) - 1))
    ELSE s

RECURSIVE DigitsValue(_)
DigitsValue(s) ==
    IF s = <<>> THEN 0
    ELSE 10 * DigitsValue(SubSeq(s, 1, Len(s) - 1)) + DigitVal(s[Len(s)])

\* does int(s) raise ValueError ?  (unsigned decimal literals only: the
\* frame-count scan never prints a sign)
IntRaises(s) == s = <<>> \/ \E j \in 1..Len(s) : ~IsDigit(s[j])

\* int(s) for a text on which it does not raise
int(s) == DigitsValue(s)

\* ------------------------------------------------------------------------
\* Natural numbers beyond the range of the checker's integers: sequences of
\* bits, most significant first, without leading zero (<<>> is 0).  The
\* arithmetic runs on groups of eight bits (limbs).
\* ------------------------------------------------------------------------

LimbBits == 8

LimbBase == 256

Zeros(n) == [j \in 1..n |-> 0]

StripZeros(b) ==
    IF \A j \in 1..Len(b) : b[j] = 0 THEN <<>>
    ELSE LET first == CHOOSE j \in 1..Len(b) :
                         b[j] = 1 /\ \A t \in 1..(j - 1) : b[t] = 0
         IN  SubSeq(b, first, Len(b))

LimbsOfBits(b) ==
    LET p == Zeros((LimbBits - (Len(b) % LimbBits)) % LimbBits) \o b
    IN  [j \in 1..(Len(p) \div LimbBits) |->
            LET o == LimbBits * (j - 1)
            IN  128 * p[o + 1] + 64 * p[o + 2] + 32 * p[o + 3] + 16 * p[o + 4]
                + 8 * p[o + 5] + 4 * p[o + 6] + 2 * p[o + 7] + p[o + 8]]

BitsOfLimbs(l) ==
    StripZeros([j \in 1..(LimbBits * Len(l)) |->
        (l[((j - 1) \div LimbBits) + 1]
            \div (2 ^ (LimbBits - 1 - ((j - 1) % LimbBits)))) % 2])

RECURSIVE LimbsOfNat(_)
LimbsOfNat(n) ==
    IF n = 0 THEN <<>> ELSE Append(LimbsOfNat(n \div LimbBase), n % LimbBase)

RECURSIVE NatOfLimbs(_)
NatOfLimbs(l) ==
    IF l = <<>> THEN 0
    ELSE LimbBase * NatOfLimbs(SubSeq(l, 1, Len(l) - 1)) + l[Len(l)]

RECURSIVE LimbsMulAdd(_, _, _)
LimbsMulAdd(l, mul, add) ==
    IF l = <<>> THEN LimbsOfNat(add)
    ELSE LET x == l[Len(l)] * mul + add
         IN  Append(LimbsMulAdd(SubSeq(l, 1, Len(l) - 1), mul, x \div LimbBase),
                    x % LimbBase)

RECURSIVE LimbsDivMod(_, _)
LimbsDivMod(l, d) ==
    IF l = <<>> THEN [q |-> <<>>, r |-> 0]
    ELSE LET front == LimbsDivMod(SubSeq(l, 1, Len(l) - 1), d)
             x     == LimbBase * front.r + l[Len(l)]
         IN  [q |-> Append(front.q, x \div d), r |-> x % d]

NatOfBits(b) == NatOfLimbs(LimbsOfBits(b))

\* b * mul + add, for small mul and add
BitsMulAdd(b, mul, add) == BitsOfLimbs(LimbsMulAdd(LimbsOfBits(b), mul, add))

\* division of b by a small divisor d: [q |-> quotient, r |-> remainder]
BitsDivMod(b, d) ==
    LET dm == LimbsDivMod(LimbsOfBits(b), d)
    IN  [q |-> BitsOfLimbs(dm.q), r |-> dm.r]

\* ------------------------------------------------------------------------
\* IEEE-754 double precision (round to nearest, ties to even)
\* ------------------------------------------------------------------------

MantissaBits == 53

Zero == [m |-> <<>>, e |-> 0]

\* the double nearest to bits * 2^e; sticky tells that the exact value lies
\* strictly above bits * 2^e (a discarded non-zero remainder)
RoundToDouble(bits, e, sticky) ==
    IF bits = <<>> THEN Zero
    ELSE IF Len(bits) <= MantissaBits
    THEN [m |-> bits \o Zeros(MantissaBits - Len(bits)),
          e |-> e - (MantissaBits - Len(bits))]
    ELSE LET drop  == Len(bits) - MantissaBits
             kept  == SubSeq(bits, 1, MantissaBits)
             guard == bits[MantissaBits + 1]
             rest  == sticky \/ \E j \in (MantissaBits + 2)..Len(bits) : bits[j] = 1
             up    == guard = 1 /\ (rest \/ kept[MantissaBits] = 1)
             inc   == IF up THEN BitsMulAdd(kept, 1, 1) ELSE kept
         IN  IF Len(inc) > MantissaBits
             THEN [m |-> SubSeq(inc, 1, MantissaBits), e |-> e + drop + 1]
             ELSE [m |-> inc, e |-> e + drop]

\* floor of a non-negative double, as a bit sequence
FloorBits(x) ==
    IF x.m = <<>> THEN <<>>
    ELSE IF x.e >= 0 THEN x.m \o Zeros(x.e)
    ELSE IF -x.e >= Len(x.m) THEN <<>>
    ELSE SubSeq(x.m, 1, Len(x.m) + x.e)

\* x * n for an integer n: the exact product rounded once
FloatMul(x, n) == RoundToDouble(BitsMulAdd(x.m, n, 0), x.e, FALSE)

\* int(x // n): float floor division by an integer-valued n is exact
IntFloorDiv(x, n) == NatOfBits(BitsDivMod(FloorBits(x), n).q)

\* int(x % n): fmod is exact, int() truncates
IntMod(x, n) == BitsDivMod(FloorBits(x), n).r

\* int((x % n) // d)
IntModFloorDiv(x, n, d) == IntMod(x, n) \div d

\* float(s) for a decimal text "digits" or "digits.digits", as the frame
\* report writes its *_time fields: the correctly rounded nearest double
PointAt(s) == IF \E j \in 1..Len(s) : s[j] = "."
              THEN CHOOSE j \in 1..Len(s) : s[j] = "."
              ELSE Len(s) + 1

RECURSIVE DigitsLimbs(_)
DigitsLimbs(s) ==
    IF s = <<>> THEN <<>>
    ELSE LimbsMulAdd(DigitsLimbs(SubSeq(s, 1, Len(s) - 1)), 10, DigitVal(s[Len(s)]))

DigitsBits(s) == BitsOfLimbs(DigitsLimbs(s))

RECURSIVE Pow10(_)
Pow10(n) == IF n = 0 THEN 1 ELSE 10 * Pow10(n - 1)

\* extra binary places carried by the division before the final rounding
GuardShift == 75

float(s) ==
    LET p      == PointAt(s)
        digits == SubSeq(s, 1, p - 1) \o SubSeq(s, p + 1, Len(s))
        places == IF p > Len(s) THEN 0 ELSE Len(s) - p
        dm     == BitsDivMod(DigitsBits(digits) \o Zeros(GuardShift), Pow10(places))
    IN  RoundToDouble(dm.q, -GuardShift, dm.r # 0)

\* the text of the timecode, HH:MM:SS.mmm
TimecodeStr(x) ==
    ZeroPad(DecimalString(IntFloorDiv(x, 3600)), 2) \o <<":">> \o
    ZeroPad(DecimalString(IntModFloorDiv(x, 3600, 60)), 2) \o <<":">> \o
    ZeroPad(DecimalString(IntMod(x, 60)), 2) \o <<".">> \o
    ZeroPad(DecimalString(IntMod(FloatMul(x, 1000), 1000)), 3)

\* ------------------------------------------------------------------------
\* Inputs of a run
\* ------------------------------------------------------------------------

\* the two scripts of the repository
Variants == {"original", "upgraded"}

\* what os.listdir offers after the extension filter
Listings ==
    { <<>>,
      <<[base |-> "clip", ext |-> ".mp4"]>>,
      <<[base |-> "clip", ext |-> ".mp4"], [base |-> "take2", ext |-> ".mov"]>> }

\* what the frame-count scan writes to stdout: nothing, "N/A", or a count
CountOutputs ==
    { <<>>, <<"N", "/", "A", "\n">> } \cup
    { DecimalString(n) \o <<"\n">> : n \in 0..MaxFrames }

\* the *_time texts a frame entry may carry (seconds, six decimals)
TimeStrings ==
    { <<"1", ".", "0", "0", "1", "0", "0", "0">>,
      <<"3", "7", "2", "3", ".", "0", "4", "0", "0", "0", "0">> }

\* an optional text: a key of a frame entry that is absent, or its text
Absent == [present |-> FALSE, text |-> <<>>]

Present(t) == [present |-> TRUE, text |-> t]

TimeOpt == {Absent} \cup {Present(t) : t \in TimeStrings}

\* an absent number (a missing key, a variable not yet assigned)
NoNumber == -1

\* one entry of the "frames" list of the report; only the original script
\* asks the report for coded_picture_number
FrameEntries(v) ==
    [pkt_pts_time : TimeOpt, pts_time : TimeOpt, pkt_dts_time : TimeOpt,
     coded_picture_number :
        IF v = "original" THEN {NoNumber} \cup (0..(MaxReport - 1))
        ELSE {NoNumber}]

\* the loop variable before the first entry is read
NoFrame == [pkt_pts_time |-> Absent, pts_time |-> Absent,
            pkt_dts_time |-> Absent, coded_picture_number |-> NoNumber]

\* json.loads(result.stdout) when it does not raise: an object whose
\* "frames" key is absent (NoNumber) or a list of the given length
ParsedReports == [loaded : {TRUE}, frames : {NoNumber} \cup (0..MaxReport)]

\* frames_info before json.loads
NoReport == [loaded |-> FALSE, frames |-> NoNumber]

\* selected_video before the selection
NoFile == [base |-> "", ext |-> ""]

\* ------------------------------------------------------------------------
\* State
\* ------------------------------------------------------------------------

VARIABLES
    variant,          \* which script runs
    pc,               \* position of the run
    files,            \* main: the listed video files
    selected_video,   \* main: the chosen file, or None
    output_dir,       \* the directory os.makedirs created, or None
    total_frames,     \* extract_final_frames: the parsed count, or None
    frames_info,      \* get_frame_timecodes: the parsed report, or None
    idx,              \* get_frame_timecodes: position of the enumeration
    frame,            \* get_frame_timecodes: the entry being processed
    frame_timecodes,  \* the dictionary key -> double
    frame_numbers,    \* extract_final_frames: range(start_frame, start_frame + 4)
    i,                \* extract_final_frames: position in frame_numbers
    timecode,         \* extract_final_frames: the double looked up last
    calls,            \* the subprocess.run invocations so far, in order
    messages,         \* the status lines printed so far
    exception,        \* the exception that ended the run uncaught, or None
    stamped           \* history: positions of the report entries read so far
                      \* that carry at least one *_time key

vars == <<variant, pc, files, selected_video, output_dir, total_frames,
          frames_info, idx, frame, frame_timecodes, frame_numbers, i, timecode,
          calls, messages, exception, stamped>>

\* float(t) for every text the report can carry, computed once
FloatTable == { <<t, float(t)>> : t \in TimeStrings }

FloatOf(t) == (CHOOSE p \in FloatTable : p[1] = t)[2]

\* the doubles frame_timecodes.get(frame_number, 0.0) can return
Timecodes == {Zero} \cup { p[2] : p \in FloatTable }

\* TimecodeStr(d) for every such double, computed once
TimecodeTable == { <<d, TimecodeStr(d)>> : d \in Timecodes }

TimecodeStrOf(d) == (CHOOSE p \in TimecodeTable : p[1] = d)[2]

MsgNoFiles     == "No video files found in the current directory."
MsgNoCount     == "Error: Couldn't determine the number of frames in the video file."
MsgNoFrames    == "Error: No frames detected in the video file."
MsgSaved       == "Extracted frames saved in folder"

EmptyDict == [k \in {} |-> Zero]

\* a lookup that answers a missing key with a timestamp stored for another
DictGet_anyStored(d, key, default) ==
    IF key \in DOMAIN d THEN d[key]
    ELSE IF DOMAIN d # {} THEN d[CHOOSE k \in DOMAIN d : TRUE]
    ELSE default

\* dict.get(key, default)
DictGet(d, key, default) == IF key \in DOMAIN d THEN d[key] ELSE default

\* d[key] = value
DictSet(d, key, value) ==
    [k \in DOMAIN d \cup {key} |-> IF k = key THEN value ELSE d[k]]

\* truth value of an optional text: None and "" are false
Truthy(v) == v.present /\ v.text # <<>>

\* a or b
Or(a, b) == IF Truthy(a) THEN a ELSE b

\* the chain with its first two operands exchanged
SelectTimecode_ptsFirst(f) == Or(Or(f.pts_time, f.pkt_pts_time), f.pkt_dts_time)

\* frame.get('pkt_pts_time') or frame.get('pts_time') or frame.get('pkt_dts_time')
SelectTimecode(f) == Or(Or(f.pkt_pts_time, f.pts_time), f.pkt_dts_time)

\* does the entry carry at least one of the three *_time keys ?
HasTimestamp(f) ==
    f.pkt_pts_time.present \/ f.pts_time.present \/ f.pkt_dts_time.present

\* subprocess.run as it would behave with check=True
CalledProcessError_checked(returncode) == returncode # 0

\* subprocess.run(cmd, shell=True) is called without check=True: a non-zero
\* exit status never raises CalledProcessError
CalledProcessError(returncode) == FALSE

\* keys counted from 1, as enumerate(frames, 1) would give
FrameKey_oneBased(v, n, f) ==
    IF v = "upgraded" THEN n + 1 ELSE f.coded_picture_number

\* the key under which the entry at position n is stored
FrameKey(v, n, f) == IF v = "upgraded" THEN n ELSE f.coded_picture_number

\* a window start one frame late
StartFrame_late(total) == IF total - 3 > 0 THEN total - 3 ELSE 0

\* max(total_frames - 4, 0)
StartFrame(total) == IF total - 4 > 0 THEN total - 4 ELSE 0

\* a window cut down to the frames the video has
FrameNumbers_clamped(total) ==
    [n \in 1..(IF total < 4 THEN total ELSE 4) |-> StartFrame(total) + n - 1]

\* range(start_frame, start_frame + 4), as a sequence
FrameNumbers(total) == [n \in 1..4 |-> StartFrame(total) + n - 1]

Init ==
    /\ variant \in Variants
    /\ pc = "main"
    /\ files = <<>>
    /\ selected_video = NoFile
    /\ output_dir = None
    /\ total_frames = NoNumber
    /\ frames_info = NoReport
    /\ idx = 0
    /\ frame = NoFrame
    /\ frame_timecodes = EmptyDict
    /\ frame_numbers = <<>>
    /\ i = 0
    /\ timecode = Zero
    /\ calls = <<>>
    /\ messages = {}
    /\ exception = None
    /\ stamped = {}

\* an uncaught exception unwinds extract_final_frames and main
Raise(exc) ==
    /\ exception' = exc
    /\ pc' = "exit"

\* main: list the video files; leave when there is none
main_list ==
    /\ pc = "main"
    /\ \E listing \in Listings :
          /\ files' = listing
          /\ IF listing = <<>>
             THEN /\ messages' = messages \cup {MsgNoFiles}
                  /\ pc' = "exit"
             ELSE /\ messages' = messages
                  /\ pc' = "select"
    /\ UNCHANGED <<variant, selected_video, output_dir, total_frames,
                   frames_info, idx, frame, frame_timecodes, frame_numbers, i,
                   timecode, calls, exception, stamped>>

\* select_video_file: prompts until the answer is a number in 1..len(files)
select_video_file ==
    /\ pc = "select"
    /\ \E choice \in 1..Len(files) : selected_video' = files[choice]
    /\ pc' = "makedirs"
    /\ UNCHANGED <<variant, files, output_dir, total_frames, frames_info, idx,
                   frame, frame_timecodes, frame_numbers, i, timecode, calls,
                   messages, exception, stamped>>

\* extract_final_frames: base name and os.makedirs(output_dir, exist_ok=True)
extract_makedirs ==
    /\ pc = "makedirs"
    /\ output_dir' = selected_video.base
    /\ pc' = "count"
    /\ UNCHANGED <<variant, files, selected_video, total_frames, frames_info,
                   idx, frame, frame_timecodes, frame_numbers, i, timecode,
                   calls, messages, exception, stamped>>

\* extract_final_frames: the frame-count scan and int(result.stdout.strip())
extract_count ==
    /\ pc = "count"
    /\ \E stdout \in CountOutputs :
          /\ calls' = Append(calls, [tool |-> "ffprobe_count"])
          /\ IF IntRaises(strip(stdout))
             THEN /\ total_frames' = total_frames
                  /\ IF variant = "upgraded"
                     THEN /\ messages' = messages \cup {MsgNoCount}
                          /\ pc' = "returned"
                          /\ exception' = exception
                     ELSE /\ messages' = messages
                          /\ Raise("ValueError")
             ELSE /\ total_frames' = int(strip(stdout))
                  /\ exception' = exception
                  /\ IF variant = "upgraded" /\ int(strip(stdout)) = 0
                     THEN /\ messages' = messages \cup {MsgNoFrames}
                          /\ pc' = "returned"
                     ELSE /\ messages' = messages
                          /\ pc' = "probe"
    /\ UNCHANGED <<variant, files, selected_video, output_dir, frames_info,
                   idx, frame, frame_timecodes, frame_numbers, i, timecode,
                   stamped>>

\* get_frame_timecodes: run the frame report and json.loads its output
get_frame_timecodes_probe ==
    /\ pc = "probe"
    /\ calls' = Append(calls, [tool |-> "ffprobe_frames"])
    /\ \/ /\ frames_info' = frames_info
          /\ Raise("JSONDecodeError")
       \/ \E parsed \in ParsedReports :
             /\ frames_info' = parsed
             /\ IF parsed.frames = NoNumber /\ variant = "original"
                THEN Raise("KeyError")
                ELSE /\ pc' = "index"
                     /\ exception' = exception
    /\ idx' = 0
    /\ frame_timecodes' = EmptyDict
    /\ UNCHANGED <<variant, files, selected_video, output_dir, total_frames,
                   frame, frame_numbers, i, timecode, messages, stamped>>

\* the list the loop of get_frame_timecodes enumerates
ReportLength == IF frames_info.frames = NoNumber THEN 0 ELSE frames_info.frames

\* get_frame_timecodes: one iteration of the loop over the frame entries
get_frame_timecodes_step ==
    /\ pc = "index"
    /\ idx < ReportLength
    /\ \E f \in FrameEntries(variant) :
          /\ frame' = f
          /\ stamped' = IF HasTimestamp(f) THEN stamped \cup {idx} ELSE stamped
          /\ IF FrameKey(variant, idx, f) = NoNumber
             THEN /\ Raise("KeyError")
                  /\ UNCHANGED <<idx, frame_timecodes>>
             ELSE /\ frame_timecodes' =
                        IF SelectTimecode(f).present
                        THEN DictSet(frame_timecodes, FrameKey(variant, idx, f),
                                     FloatOf(SelectTimecode(f).text))
                        ELSE frame_timecodes
                  /\ idx' = idx + 1
                  /\ UNCHANGED <<pc, exception>>
    /\ UNCHANGED <<variant, files, selected_video, output_dir, total_frames,
                   frames_info, frame_numbers, i, timecode, calls, messages>>

\* get_frame_timecodes returns; extract_final_frames computes the window
get_frame_timecodes_return ==
    /\ pc = "index"
    /\ idx = ReportLength
    /\ frames_info' = NoReport
    /\ frame' = NoFrame
    /\ idx' = 0
    /\ frame_numbers' = FrameNumbers(total_frames)
    /\ i' = 0
    /\ pc' = "extract"
    /\ UNCHANGED <<variant, files, selected_video, output_dir, total_frames,
                   frame_timecodes, timecode, calls, messages, exception,
                   stamped>>

\* extract_final_frames: one iteration of the loop over frame_numbers; the
\* exit status of ffmpeg is not looked at
extract_frame ==
    /\ pc = "extract"
    /\ i < Len(frame_numbers)
    /\ LET frame_number == frame_numbers[i + 1]
           looked_up    == DictGet(frame_timecodes, frame_number, Zero)
           output_image == [dir |-> output_dir, base |-> selected_video.base,
                            position |-> i + 1,
                            timecode_str |-> TimecodeStrOf(looked_up)]
       IN  /\ timecode' = looked_up
           /\ \E returncode \in {0, 1} :
                 /\ calls' = Append(calls, [tool |-> "ffmpeg",
                                            n |-> frame_number,
                                            output_image |-> output_image,
                                            returncode |-> returncode])
                 /\ IF CalledProcessError(returncode)
                    THEN /\ Raise("CalledProcessError")
                         /\ i' = i
                    ELSE /\ i' = i + 1
                         /\ UNCHANGED <<pc, exception>>
    /\ UNCHANGED <<variant, files, selected_video, output_dir, total_frames,
                   frames_info, idx, frame, frame_timecodes, frame_numbers,
                   messages, stamped>>

\* extract_final_frames: the loop is over, back to main
extract_return ==
    /\ pc = "extract"
    /\ i = Len(frame_numbers)
    /\ pc' = "returned"
    /\ UNCHANGED <<variant, files, selected_video, output_dir, total_frames,
                   frames_info, idx, frame, frame_timecodes, frame_numbers, i,
                   timecode, calls, messages, exception, stamped>>

\* main: the closing line, printed after every return of extract_final_frames
main_report ==
    /\ pc = "returned"
    /\ messages' = messages \cup {MsgSaved}
    /\ pc' = "exit"
    /\ UNCHANGED <<variant, files, selected_video, output_dir, total_frames,
                   frames_info, idx, frame, frame_timecodes, frame_numbers, i,
                   timecode, calls, exception, stamped>>

Next ==
    \/ main_list
    \/ select_video_file
    \/ extract_makedirs
    \/ extract_count
    \/ get_frame_timecodes_probe
    \/ get_frame_timecodes_step
    \/ get_frame_timecodes_return
    \/ extract_frame
    \/ extract_return
    \/ main_report

Spec == Init /\ [][Next]_vars

\* ------------------------------------------------------------------------
\* Properties
\* ------------------------------------------------------------------------

IsFfmpeg(c) == c.tool = "ffmpeg"

\* the extractor invocations so far, in order
FfmpegCalls == SelectSeq(calls, IsFfmpeg)

\* the frame ordinals handed to the extractor so far, in order
Ordinals == [k \in 1..Len(FfmpegCalls) |-> FfmpegCalls[k].n]

\* extract_final_frames ran to its end
Extracted == pc \in {"returned", "exit"} /\ frame_numbers # <<>>

ZeroTimecode == <<"0", "0", ":", "0", "0", ":", "0", "0", ".", "0", "0", "0">>

\* C1: for a frame count of at least 4 the ordinals handed to the extractor
\* are exactly count-4, count-3, count-2, count-1, in strictly ascending
\* order, each below the count.
C1_TrailingWindow ==
    total_frames >= 4 =>
        LET w == <<total_frames - 4, total_frames - 3,
                   total_frames - 2, total_frames - 1>>
        IN  /\ frame_numbers # <<>> => frame_numbers = w
            /\ Ordinals = SubSeq(w, 1, Len(Ordinals))
            /\ \A k \in 1..Len(Ordinals) :
                  /\ Ordinals[k] < total_frames
                  /\ k > 1 => Ordinals[k - 1] < Ordinals[k]
            /\ Extracted => Len(Ordinals) = 4

C1_Witness == total_frames = 5 /\ Extracted /\ Ordinals = <<1, 2, 3, 4>>

\* C2: the upgraded script keys the dictionary by position in the report:
\* the keys are exactly the positions whose entry carries a *_time key, an
\* entry without one leaves a gap and shifts nothing, and a report without
\* a "frames" list, or with an empty one, gives the empty dictionary and
\* raises nothing.
C2_PositionalKeys ==
    variant = "upgraded" =>
        /\ DOMAIN frame_timecodes = stamped
        /\ pc = "index" => stamped \subseteq 0..(idx - 1)
        /\ (frames_info.loaded /\ frames_info.frames \in {NoNumber, 0}) =>
              /\ pc = "index"
              /\ exception = None
              /\ frame_timecodes = EmptyDict

C2_Witness ==
    /\ variant = "upgraded"
    /\ pc = "index"
    /\ idx = 2
    /\ stamped = {1}
    /\ DOMAIN frame_timecodes = {1}

\* the text of the first *_time key the entry carries, in the order
\* pkt_pts_time, pts_time, pkt_dts_time
FirstPresent(f) ==
    IF f.pkt_pts_time.present THEN f.pkt_pts_time.text
    ELSE IF f.pts_time.present THEN f.pts_time.text
    ELSE f.pkt_dts_time.text

\* C3: every iteration of the loop stores, under the key of the entry, the
\* first present of pkt_pts_time, pts_time, pkt_dts_time (in that order)
\* converted to a double, and stores nothing when none is present; so an
\* entry with pkt_pts_time always stores pkt_pts_time.
C3_FirstPresentTimestamp ==
    [][ (pc = "index" /\ pc' = "index" /\ idx' = idx + 1) =>
           LET f == frame'
               k == IF variant = "upgraded" THEN idx
                    ELSE f.coded_picture_number
           IN  IF HasTimestamp(f)
               THEN /\ k \in DOMAIN frame_timecodes'
                    /\ frame_timecodes'[k] = FloatOf(FirstPresent(f))
               ELSE frame_timecodes' = frame_timecodes ]_vars

C3_Witness ==
    /\ variant = "upgraded"
    /\ pc = "index"
    /\ idx >= 1
    /\ frame.pkt_pts_time.present
    /\ frame.pts_time.present
    /\ frame.pkt_pts_time.text # frame.pts_time.text
    /\ (idx - 1) \in DOMAIN frame_timecodes
    /\ frame_timecodes[idx - 1] = FloatOf(frame.pkt_pts_time.text)

\* C4: the lookup made for each target never raises, gives the stored
\* double when the ordinal is a key and 0.0 otherwise, and leaves the
\* dictionary as it was; a target without an entry is named 00:00:00.000
\* and is extracted all the same.
C4_TotalLookup ==
    [][ (pc = "extract" /\ i < Len(frame_numbers) /\ calls' # calls) =>
           LET k == frame_numbers[i + 1]
               c == calls'[Len(calls')]
           IN  /\ exception' = None
               /\ frame_timecodes' = frame_timecodes
               /\ timecode' = IF k \in DOMAIN frame_timecodes
                              THEN frame_timecodes[k] ELSE Zero
               /\ Len(calls') = Len(calls) + 1
               /\ c.tool = "ffmpeg"
               /\ c.n = k
               /\ k \notin DOMAIN frame_timecodes =>
                     c.output_image.timecode_str = ZeroTimecode ]_vars

C4_Witness ==
    /\ frame_timecodes # EmptyDict
    /\ \E a, b \in 1..Len(FfmpegCalls) :
          /\ FfmpegCalls[a].n \in DOMAIN frame_timecodes
          /\ FfmpegCalls[b].n \notin DOMAIN frame_timecodes
          /\ FfmpegCalls[b].n < total_frames
          /\ FfmpegCalls[b].output_image.timecode_str = ZeroTimecode
          /\ timecode = Zero

\* C5: when the count scan gives no parseable integer the run stops with
\* the message that the number of frames could not be determined: no count
\* is assumed, the dictionary is not built and nothing is extracted.
C5_DecodeErrorReported ==
    (calls # <<>> /\ total_frames = NoNumber) =>
        /\ exception = None
        /\ MsgNoCount \in messages
        /\ Len(calls) = 1
        /\ frame_timecodes = EmptyDict

\* C6: when the frame count is 0 the run ends with the empty-video message,
\* nothing is extracted and no output directory is ever created.
C6_EmptyVideoLeavesNothing ==
    (variant = "upgraded" /\ total_frames = 0) =>
        /\ MsgNoFrames \in messages
        /\ FfmpegCalls = <<>>
        /\ output_dir = None

\* C7: no stage-level error ends the run as a crash: a frame report that
\* cannot be parsed ends the run in a reported state, without extraction
\* and without an uncaught exception.
C7_NoUncaughtException ==
    variant = "upgraded" => (exception = None /\ (pc = "exit" => messages # {}))

\* C8: once the count is positive and the dictionary is built, the calls
\* are the count scan, the frame report, then the extractions; there are
\* exactly four extractions, for window positions 1..4 in ascending ordinal
\* order, whatever the exit status of each.
C8_SequentialBestEffort ==
    (total_frames > 0 /\ frame_numbers # <<>>) =>
        /\ Len(calls) = 2 + i
        /\ calls[1].tool = "ffprobe_count"
        /\ calls[2].tool = "ffprobe_frames"
        /\ \A k \in 1..i :
              /\ calls[2 + k].tool = "ffmpeg"
              /\ calls[2 + k].output_image.position = k
              /\ calls[2 + k].n = frame_numbers[k]
              /\ k > 1 => calls[1 + k].n < calls[2 + k].n
        /\ exception = None
        /\ pc # "extract" => (Extracted /\ i = 4)

C8_Witness ==
    /\ Extracted
    /\ total_frames > 0
    /\ Len(FfmpegCalls) = 4
    /\ FfmpegCalls[1].returncode = 1
    /\ FfmpegCalls[3].returncode = 1
    /\ FfmpegCalls[4].returncode = 0

\* the run is over and no exception ended it
Finished == pc = "exit" /\ exception = None

\* C9 as stated: for a frame count of 0, 1, 2 or 3 the window is 0,1,2,3
\* and all four ordinals reach the extractor.
C9_ShortVideoWindow_AsStated ==
    (Finished /\ total_frames \in 0..3) => Ordinals = <<0, 1, 2, 3>>

\* C9 amended: for a frame count of 1, 2 or 3 (and of 0 in the original
\* script, which has no empty-video check) the window is 0,1,2,3 and all
\* four ordinals reach the extractor unchanged; in the upgraded script a
\* count of 0 ends the run before the window and nothing is extracted.
C9_ShortVideoWindow ==
    /\ (Finished /\ total_frames \in 0..3
           /\ ~(variant = "upgraded" /\ total_frames = 0)) =>
          (frame_numbers = <<0, 1, 2, 3>> /\ Ordinals = <<0, 1, 2, 3>>)
    /\ (variant = "upgraded" /\ total_frames = 0) =>
          (frame_numbers = <<>> /\ Ordinals = <<>>)

C9_Witness ==
    /\ Finished
    /\ total_frames = 2
    /\ Ordinals = <<0, 1, 2, 3>>

\* the whole milliseconds a *_time text stands for
Millis(t) ==
    LET p == PointAt(t)
    IN  1000 * DigitsValue(SubSeq(t, 1, p - 1))
        + DigitsValue(SubSeq(t, p + 1, p + 3))

\* HH:MM:SS.mmm of a whole number of milliseconds, in integer arithmetic
ExactTimecodeStr(ms) ==
    ZeroPad(DecimalString(ms \div 3600000), 2) \o <<":">> \o
    ZeroPad(DecimalString((ms % 3600000) \div 60000), 2) \o <<":">> \o
    ZeroPad(DecimalString((ms % 60000) \div 1000), 2) \o <<".">> \o
    ZeroPad(DecimalString(ms % 1000), 3)

\* C10: the timecode text of a timestamp of a whole number of milliseconds
\* is its hours, minutes, seconds and milliseconds, zero-padded, so that
\* the four fields give the timestamp back.
C10_TimecodeRoundTrip ==
    \A k \in 1..Len(FfmpegCalls) :
        \A t \in TimeStrings :
            LET c == FfmpegCalls[k]
            IN  (c.n \in DOMAIN frame_timecodes
                    /\ frame_timecodes[c.n] = FloatOf(t)) =>
                   c.output_image.timecode_str = ExactTimecodeStr(Millis(t))

====
